---------------------------- MODULE Spec2Model ----------------------------
(***************************************************************************)
(* CSV analyzer: the upload handler of src/app.py (Flask) and the command  *)
(* line of src/analyze_csv.py, with the pipeline both run:                 *)
(*   bytes -> decode (UTF-8, Latin-1 fallback) -> sniff_delimiter          *)
(*         -> pd.read_csv(sep=None, engine="python") -> statistics.        *)
(* Bytes and characters are integers (byte values, code points); text,     *)
(* fields and file names are sequences of them.                            *)
(***************************************************************************)
EXTENDS Integers, Sequences, FiniteSets, TLC

(***************************************************************************)
(* Bounds of the model.                                                    *)
(***************************************************************************)
\* longest raw byte string enumerated exhaustively as an upload / a file
MaxRaw == 3
\* most data rows of the enumerated cell grids (pipeline specifications)
MaxGridRows == 2
\* most data rows of the long two-pattern tables (statistics specification)
MaxLongRows == 12
\* most data rows of the full-alphabet grids (statistics specification)
MaxStatRows == 3
\* longest byte string of the decoder specification
MaxDecodeLen == 4
\* longest uploaded file name
MaxNameLen == 5

(***************************************************************************)
(* Characters.                                                             *)
(***************************************************************************)
LF == 10
SPACE == 32
COMMA == 44
DOT == 46
DIGIT1 == 49
DIGIT3 == 51
COLON == 58
SEMI == 59
TAB == 9
PIPE == 124
UNDERSCORE == 95
LETTERX == 120

\* bytes.strip() with no argument strips ASCII whitespace
AsciiWhitespace == {9, 10, 11, 12, 13, 32}

Min(a, b) == IF a < b THEN a ELSE b
Max(a, b) == IF a > b THEN a ELSE b

SeqsUpTo(S, n) == UNION {[1..k -> S] : k \in 0..n}

RECURSIVE SumSeq(_)
SumSeq(s) == IF s = <<>> THEN 0 ELSE Head(s) + SumSeq(Tail(s))

RECURSIVE SelectIdx(_, _, _)
\* the indices i of 1..n, ascending from i, for which keep[i]
SelectIdx(keep, i, n) ==
    IF i > n THEN <<>>
    ELSE IF keep[i] THEN <<i>> \o SelectIdx(keep, i + 1, n)
    ELSE SelectIdx(keep, i + 1, n)


(***************************************************************************)
(* Decoder: data_bytes.decode("utf-8"), falling back on                    *)
(* data_bytes.decode("latin-1") when that raises UnicodeDecodeError.       *)
(***************************************************************************)
IsContinuation(b) == b >= 128 /\ b <= 191

\* number of bytes the lead byte announces, 0 for a byte that cannot lead
SeqLenOfLead(b) ==
    IF b < 128 THEN 1
    ELSE IF b >= 192 /\ b <= 223 THEN 2
    ELSE IF b >= 224 /\ b <= 239 THEN 3
    ELSE IF b >= 240 /\ b <= 247 THEN 4
    ELSE 0

\* the payload bits of the bytes bs (a lead and its continuation bytes)
CodePointOf(bs) ==
    LET n == Len(bs)
    IN  IF n = 1 THEN bs[1]
        ELSE IF n = 2 THEN (bs[1] - 192) * 64 + (bs[2] - 128)
        ELSE IF n = 3 THEN (bs[1] - 224) * 4096 + (bs[2] - 128) * 64 + (bs[3] - 128)
        ELSE (bs[1] - 240) * 262144 + (bs[2] - 128) * 4096
                 + (bs[3] - 128) * 64 + (bs[4] - 128)

\* smallest code point that needs n bytes: a smaller one is an overlong form
MinCodePoint(n) == IF n = 1 THEN 0 ELSE IF n = 2 THEN 128 ELSE IF n = 3 THEN 2048 ELSE 65536

IsScalarValue(cp) == cp <= 1114111 /\ ~(cp >= 55296 /\ cp <= 57343)

\* strict UTF-8 decoding of b: every byte that is no continuation byte leads
\* a character, which must be well formed, and every continuation byte must
\* belong to the character of a lead; ok = FALSE is UnicodeDecodeError
Utf8Decode(b) ==
    LET leads == SelectSeq([i \in 1..Len(b) |-> i], LAMBDA i : ~IsContinuation(b[i]))
        n(i) == SeqLenOfLead(b[i])
        char(i) == SubSeq(b, i, i + n(i) - 1)
        wellFormedAt(i) ==
            /\ n(i) # 0
            /\ i + n(i) - 1 <= Len(b)
            /\ \A k \in 1..(n(i) - 1) : IsContinuation(b[i + k])
            /\ CodePointOf(char(i)) >= MinCodePoint(n(i))
            /\ IsScalarValue(CodePointOf(char(i)))
        owned(j) == \E m \in 1..Len(leads) : leads[m] < j /\ j < leads[m] + n(leads[m])
    IN  IF /\ \A m \in 1..Len(leads) : wellFormedAt(leads[m])
           /\ \A j \in 1..Len(b) : IsContinuation(b[j]) => owned(j)
        THEN [ok |-> TRUE,
              text |-> [m \in 1..Len(leads) |-> CodePointOf(char(leads[m]))]]
        ELSE [ok |-> FALSE, text |-> <<>>]

\* Latin-1 maps every byte to the code point of the same value: total
Latin1Decode(b) == [i \in 1..Len(b) |-> b[i]]

\* a decoder that never falls back: undecodable bytes give empty text
DecodeNoFallback(b) ==
    [text |-> Utf8Decode(b).text, encoding_used |-> "utf-8"]

\* parse_csv_bytes lines 79-84, read_csv_with_fallback lines 25-30
Decode(b) ==
    LET u == Utf8Decode(b)
    IN  IF u.ok THEN [text |-> u.text, encoding_used |-> "utf-8"]
        ELSE [text |-> Latin1Decode(b), encoding_used |-> "latin-1"]

\* data_bytes is falsy or strips to b""
IsBlankBytes(b) == b = <<>> \/ \A i \in 1..Len(b) : b[i] \in AsciiWhitespace

(***************************************************************************)
(* csv.Sniffer().sniff(sample, delimiters) of the standard library, for    *)
(* text without quote characters: _guess_quote_and_delimiter finds         *)
(* nothing and _guess_delimiter decides.  NoDelims stands for              *)
(* delimiters=None, NoChar for the failure (csv.Error, "Could not          *)
(* determine delimiter").                                                  *)
(***************************************************************************)
NoChar == 0 - 1
NoDelims == {NoChar}

\* the delimiters argument of both sniff_delimiter functions
CandidateDelimiters == {COMMA, SEMI, TAB, PIPE, COLON}

\* csv.Sniffer.preferred, in its order
SnifferPreferred == <<COMMA, TAB, SEMI, SPACE, COLON>>

\* _guess_delimiter reads its sample ten lines at a time
ChunkLength == 10

RECURSIVE Split(_, _)
\* str.split(d): the piece before the first d, then the pieces of the rest;
\* always at least one piece
Split(s, d) ==
    LET at == {i \in 1..Len(s) : s[i] = d}
    IN  IF at = {} THEN <<s>>
        ELSE LET i == CHOOSE k \in at : \A m \in at : k <= m
             IN  <<SubSeq(s, 1, i - 1)>> \o Split(SubSeq(s, i + 1, Len(s)), d)

Count(s, c) == Cardinality({i \in 1..Len(s) : s[i] = c})

\* data = list(filter(None, data.split('\n')))
NonEmptyLines(sample) == SelectSeq(Split(sample, LF), LAMBDA l : l # <<>>)

\* the characters of the first n lines that occur equally often, and at least
\* once, in each of them: with fewer than twenty lines the mode of a
\* character's frequency reaches the 0.9 consistency threshold only so
ConsistentChars(lines, n, delimiters) ==
    {c \in UNION {{l[i] : i \in 1..Len(l)} : l \in {lines[k] : k \in 1..n}} :
        /\ c < 127
        /\ \A k \in 1..n : Count(lines[k], c) = Count(lines[1], c)
        /\ delimiters = NoDelims \/ c \in delimiters}

RECURSIVE FirstPreferred(_, _)
FirstPreferred(delims, i) ==
    IF i > Len(SnifferPreferred) THEN NoChar
    ELSE IF SnifferPreferred[i] \in delims THEN SnifferPreferred[i]
    ELSE FirstPreferred(delims, i + 1)

\* items.sort(); items[-1]: the most frequent, the greatest character on a tie
Dominant(delims, line) ==
    CHOOSE c \in delims : \A e \in delims :
        \/ Count(line, e) < Count(line, c)
        \/ Count(line, e) = Count(line, c) /\ e <= c

RECURSIVE GuessDelimiterFrom(_, _, _)
\* the chunk loop: the first prefix of whole chunks with a consistent
\* character decides; one candidate is returned at once, several are kept
\* to the end of the loop and go to the preferred list
GuessDelimiterFrom(lines, end, delimiters) ==
    LET n == Min(end, Len(lines))
        delims == ConsistentChars(lines, n, delimiters)
    IN  IF Cardinality(delims) = 1 THEN CHOOSE c \in delims : TRUE
        ELSE IF delims # {} THEN
            LET p == FirstPreferred(delims, 1)
            IN  IF p # NoChar THEN p ELSE Dominant(delims, lines[1])
        ELSE IF end >= Len(lines) THEN NoChar
        ELSE GuessDelimiterFrom(lines, end + ChunkLength, delimiters)

\* csv.Sniffer().sniff(sample, delimiters).delimiter, NoChar when it raises
SnifferSniff(sample, delimiters) ==
    LET lines == NonEmptyLines(sample)
    IN  IF lines = <<>> THEN NoChar
        ELSE GuessDelimiterFrom(lines, ChunkLength, delimiters)

\* sniff_delimiter: app.py lines 63-71, analyze_csv.py lines 15-20
sniff_delimiter(sample_text) ==
    LET d == SnifferSniff(sample_text, CandidateDelimiters)
    IN  IF d = NoChar THEN COMMA ELSE d

\* text[:10000]
SampleLength == 10000
Sample(text) == SubSeq(text, 1, Min(Len(text), SampleLength))

(***************************************************************************)
(* pd.read_csv(io.StringIO(text), sep=None, engine="python"): the pandas   *)
(* python parser.  With sep=None it sniffs the separator from the FIRST    *)
(* line alone (csv.Sniffer().sniff(line), any ASCII character allowed),    *)
(* takes that line as the header, skips blank lines, pads short rows with  *)
(* NaN, uses surplus leading fields as an implicit index and rejects       *)
(* longer rows.  Cells are over digits, blanks and letters that start no   *)
(* number, boolean or NaN token.                                           *)
(***************************************************************************)
\* str.strip() also strips the non-ASCII blanks below 256
StrWhitespace == AsciiWhitespace \cup {28, 29, 30, 31, 133, 160}

Digits == 48..57

\* the lines a text file object yields, without their line ends
FileLines(text) ==
    LET pieces == Split(text, LF)
    IN  IF pieces[Len(pieces)] = <<>> THEN SubSeq(pieces, 1, Len(pieces) - 1)
        ELSE pieces

\* the row csv.reader makes of one line: an empty line has no fields
ReaderRow(line, d) == IF line = <<>> THEN <<>> ELSE Split(line, d)

RECURSIVE Strip(_)
Strip(s) ==
    IF s = <<>> THEN s
    ELSE IF Head(s) \in StrWhitespace THEN Strip(Tail(s))
    ELSE IF s[Len(s)] \in StrWhitespace THEN Strip(SubSeq(s, 1, Len(s) - 1))
    ELSE s

\* _remove_empty_lines keeps a row of several fields, or of one non-blank field
IsDataRow(row) == Len(row) > 1 \/ (Len(row) = 1 /\ Strip(row[1]) # <<>>)

\* the cells of a frame
NaN == [kind |-> "nan", n |-> 0, s |-> <<>>]
Num(v) == [kind |-> "num", n |-> v, s |-> <<>>]
Str(t) == [kind |-> "str", n |-> 0, s |-> t]

\* an empty field is a missing value (the other NA tokens need letters)
IsMissingField(f) == f = <<>>

IsIntToken(f) ==
    LET t == Strip(f) IN t # <<>> /\ \A i \in 1..Len(t) : t[i] \in Digits

RECURSIVE DecimalValue(_)
DecimalValue(t) ==
    IF t = <<>> THEN 0
    ELSE DecimalValue(SubSeq(t, 1, Len(t) - 1)) * 10 + (t[Len(t)] - 48)

\* a column that needs no missing value stays int64 only without one
InferDtypeIntWithNaN(fields) ==
    IF fields = <<>> THEN "object"
    ELSE IF \A i \in 1..Len(fields) :
                IsMissingField(fields[i]) \/ IsIntToken(fields[i])
    THEN (IF \A i \in 1..Len(fields) : IsMissingField(fields[i])
          THEN "float64" ELSE "int64")
    ELSE "object"

\* the dtype pandas infers for the raw fields of one column: no rows give
\* object; integers give int64, and float64 as soon as one cell is missing
\* (NaN is a float); an all-missing column is float64; anything else object
InferDtype(fields) ==
    IF fields = <<>> THEN "object"
    ELSE IF \A i \in 1..Len(fields) :
                IsMissingField(fields[i]) \/ IsIntToken(fields[i])
    THEN (IF \E i \in 1..Len(fields) : IsMissingField(fields[i])
          THEN "float64" ELSE "int64")
    ELSE "object"

ConvertField(f, dtype) ==
    IF IsMissingField(f) THEN NaN
    ELSE IF dtype = "object" THEN Str(f)
    ELSE Num(DecimalValue(Strip(f)))

\* a row with too few fields is padded with missing values
PadRow(row, width) ==
    [j \in 1..width |-> IF j <= Len(row) THEN row[j] ELSE <<>>]

NoFrame == [header |-> <<>>, dtypes |-> <<>>, rows |-> <<>>]

\* the frame of a header and data rows of exactly width fields each, the
\* first width - Len(header) of them the implicit index
MakeFrame(header, rows, width) ==
    LET k == width - Len(header)
        colFields(j) == [i \in 1..Len(rows) |-> rows[i][k + j]]
        dtypes == [j \in 1..Len(header) |-> InferDtype(colFields(j))]
    IN  [header |-> header,
         dtypes |-> dtypes,
         rows   |-> [i \in 1..Len(rows) |->
                       [j \in 1..Len(header) |->
                          ConvertField(rows[i][k + j], dtypes[j])]]]

\* a parser that refuses a header without data rows
FrameOfRowsRejectEmpty(header, rows) ==
    IF rows = <<>> THEN [kind |-> "EmptyDataError", frame |-> NoFrame]
    ELSE IF \E i \in 1..Len(rows) : Len(rows[i]) > Len(header)
    THEN [kind |-> "ParserError", frame |-> NoFrame]
    ELSE [kind |-> "ok",
          frame |-> MakeFrame(header,
                              [i \in 1..Len(rows) |-> PadRow(rows[i], Len(header))],
                              Len(header))]

\* _get_index_name and _rows_to_cols on the header and the non-blank rows
FrameOfRows(header, rows) ==
    LET ncols  == Len(header)
        \* index names on a row of their own, before the first data row
        case0  == Len(rows) >= 2 /\ Len(rows[2]) = Len(rows[1]) + ncols
        data   == IF case0 THEN Tail(rows) ELSE rows
        k      == IF case0 THEN Len(rows[1])
                  ELSE IF rows # <<>> THEN Max(0, Len(rows[1]) - ncols)
                  ELSE 0
        width  == ncols + k
    IN  IF \E i \in 1..Len(data) : Len(data[i]) > width
        THEN [kind |-> "ParserError", frame |-> NoFrame]
        ELSE [kind |-> "ok",
              frame |-> MakeFrame(header,
                                  [i \in 1..Len(data) |-> PadRow(data[i], width)],
                                  width)]

\* what the parser raises when no separator can be sniffed from the first
\* line (csv.Error, which is no pandas error, or EmptyDataError: it depends
\* on the pandas build)
SniffFailureRaises == {"Error", "EmptyDataError"}

\* the possible results of read_csv(text, sep=sep): sep = NoChar is sep=None
PdReadCsv(text, sep) ==
    LET lines == FileLines(text)
    IN  IF sep = NoChar
        THEN LET first == IF lines = <<>> THEN <<>> ELSE lines[1]
                 d     == SnifferSniff(first, NoDelims)
             IN  IF d = NoChar
                 THEN {[kind |-> e, frame |-> NoFrame] : e \in SniffFailureRaises}
                 ELSE {FrameOfRows(ReaderRow(first, d),
                           SelectSeq([i \in 1..(Len(lines) - 1) |->
                                        ReaderRow(lines[i + 1], d)], IsDataRow))}
        ELSE LET rows == SelectSeq([i \in 1..Len(lines) |-> ReaderRow(lines[i], sep)],
                                   IsDataRow)
             IN  IF rows = <<>>
                 THEN {[kind |-> "EmptyDataError", frame |-> NoFrame]}
                 ELSE {FrameOfRows(Head(rows), Tail(rows))}

\* the separator the parser itself settles on, NoChar when it finds none
ParserSeparator(text) ==
    LET lines == FileLines(text)
    IN  SnifferSniff(IF lines = <<>> THEN <<>> ELSE lines[1], NoDelims)

\* a call that hands the sniffed delimiter to the parser
ReadCsvCallHinted(text, detected) == PdReadCsv(text, detected)

\* the call of app.py line 91 and analyze_csv.py line 32: sep=None, the
\* delimiter sniff_delimiter detected is not an argument
ReadCsvCall(text, detected) == PdReadCsv(text, NoChar)

(***************************************************************************)
(* Statistics: compute_stats (app.py lines 94-149) and the same lines of   *)
(* main (analyze_csv.py lines 53-67).  A percentage is the exact fraction  *)
(* <<numerator, denominator>>.  The figures of describe() other than the   *)
(* count, and memory_usage, are left out: no statement here reads them.    *)
(***************************************************************************)
\* the 10 of df.head(10), used for the preview and the duplicate preview
HeadRows == 10

Rows(df) == Len(df.rows)
\* df.shape[1]
Cols(df) == Len(df.header)

\* df.isna().sum(): the missing cells of column j
MissingInColumn(df, j) ==
    Cardinality({i \in 1..Rows(df) : df.rows[i][j].kind = "nan"})

missing_per_col(df) == [j \in 1..Cols(df) |-> MissingInColumn(df, j)]

\* a percentage that forgets the factor 100
OverallMissingPctUnscaled(overall_missing, total_cells) ==
    IF total_cells > 0 THEN <<overall_missing, total_cells>> ELSE <<0, 1>>

\* (overall_missing / total_cells * 100.0) if total_cells > 0 else 0.0
OverallMissingPct(overall_missing, total_cells) ==
    IF total_cells > 0 THEN <<overall_missing * 100, total_cells>> ELSE <<0, 1>>

RECURSIVE DuplicatedFrom(_, _, _)
\* df.duplicated(), keep="first": a scan that marks a row already seen and
\* records the others; two missing cells compare equal
DuplicatedFrom(rows, i, seen) ==
    IF i > Len(rows) THEN <<>>
    ELSE <<rows[i] \in seen>> \o DuplicatedFrom(rows, i + 1, seen \cup {rows[i]})

\* keep=False: every row that has a copy is marked, the first one too
DuplicatedKeepNone(df) ==
    [i \in 1..Rows(df) |-> \E j \in 1..Rows(df) : j # i /\ df.rows[j] = df.rows[i]]

Duplicated(df) == DuplicatedFrom(df.rows, 1, {})

\* s.head(10)
Head10(s) == SubSeq(s, 1, Min(Len(s), HeadRows))

IsNumericDtype(dt) == dt \in {"int64", "float64"}

\* df.select_dtypes(include=[np.number]): the numeric columns
NumericColumns(df) == SelectIdx([j \in 1..Cols(df) |-> IsNumericDtype(df.dtypes[j])],
                                1, Cols(df))

NoStats ==
    [rows |-> 0, cols |-> 0, dtypes |-> <<>>, missing_per_col |-> <<>>,
     overall_missing |-> 0, overall_missing_pct |-> <<0, 1>>,
     duplicates_count |-> 0, dup_preview |-> <<>>, has_numeric |-> FALSE,
     numeric_count |-> <<>>, preview |-> <<>>]

compute_stats(df) ==
    LET rows == Rows(df)
        cols == Cols(df)
        missing == missing_per_col(df)
        total_cells == rows * cols
        overall_missing == SumSeq(missing)
        dup == Duplicated(df)
        dupIdx == SelectIdx(dup, 1, rows)
        numeric == NumericColumns(df)
    IN  [rows |-> rows,
         cols |-> cols,
         dtypes |-> df.dtypes,
         missing_per_col |-> missing,
         overall_missing |-> overall_missing,
         overall_missing_pct |-> OverallMissingPct(overall_missing, total_cells),
         duplicates_count |-> Cardinality({i \in 1..rows : dup[i]}),
         dup_preview |-> Head10([k \in 1..Len(dupIdx) |-> df.rows[dupIdx[k]]]),
         \* not numeric_df.empty: some numeric column and some row
         has_numeric |-> numeric # <<>> /\ rows > 0,
         \* the "count" line of describe(): the non-missing cells
         numeric_count |-> [k \in 1..Len(numeric) |-> rows - missing[numeric[k]]],
         preview |-> Head10(df.rows)]

\* the fraction p rounded to a multiple of 1/scale, as that multiple (half
\* to even): round(x, 2) is scale 100, the format .3f scale 1000
RoundScaled(p, scale) ==
    LET scaled == p[1] * scale
        q == scaled \div p[2]
        r == scaled % p[2]
    IN  IF 2 * r > p[2] \/ (2 * r = p[2] /\ q % 2 = 1) THEN q + 1 ELSE q

(***************************************************************************)
(* The upload surface: werkzeug's secure_filename, allowed_file and the    *)
(* size limit.                                                             *)
(***************************************************************************)
ALLOWED_EXTENSIONS == {<<99, 115, 118>>}
MAX_CONTENT_LENGTH_MB == 10
MAX_CONTENT_LENGTH == MAX_CONTENT_LENGTH_MB * 1024 * 1024

IsUpper(c) == c >= 65 /\ c <= 90
IsLower(c) == c >= 97 /\ c <= 122

\* str.lower()
Lower(s) == [i \in 1..Len(s) |-> IF IsUpper(s[i]) THEN s[i] + 32 ELSE s[i]]

RECURSIVE JoinWith(_, _)
JoinWith(pieces, c) ==
    IF pieces = <<>> THEN <<>>
    ELSE IF Len(pieces) = 1 THEN pieces[1]
    ELSE pieces[1] \o <<c>> \o JoinWith(Tail(pieces), c)

RECURSIVE StripChars(_, _)
StripChars(s, cs) ==
    IF s = <<>> THEN s
    ELSE IF Head(s) \in cs THEN StripChars(Tail(s), cs)
    ELSE IF s[Len(s)] \in cs THEN StripChars(SubSeq(s, 1, Len(s) - 1), cs)
    ELSE s

\* [A-Za-z0-9_.-]
IsFilenameChar(c) ==
    IsUpper(c) \/ IsLower(c) \/ c \in Digits \/ c \in {UNDERSCORE, DOT, 45}

\* werkzeug.utils.secure_filename: non-ASCII dropped, path separators turned
\* into blanks, runs of blanks into one "_", other characters removed, dots
\* and underscores stripped from both ends
secure_filename(name) ==
    LET ascii   == SelectSeq(name, LAMBDA c : c < 128)
        nosep   == [i \in 1..Len(ascii) |-> IF ascii[i] = 47 THEN SPACE ELSE ascii[i]]
        blanked == [i \in 1..Len(nosep) |->
                      IF nosep[i] \in StrWhitespace THEN SPACE ELSE nosep[i]]
        words   == SelectSeq(Split(blanked, SPACE), LAMBDA w : w # <<>>)
        joined  == JoinWith(words, UNDERSCORE)
    IN  StripChars(SelectSeq(joined, IsFilenameChar), {DOT, UNDERSCORE})

\* filename.rsplit(".", 1)[1]
ExtensionOf(name) ==
    LET pieces == Split(name, DOT) IN pieces[Len(pieces)]

\* an extension check that forgets to ask for the dot
AllowedFileSuffixOnly(name) ==
    \E ext \in ALLOWED_EXTENSIONS :
        /\ Len(name) >= Len(ext)
        /\ Lower(SubSeq(name, Len(name) - Len(ext) + 1, Len(name))) = ext

\* allowed_file, app.py lines 48-49
allowed_file(name) ==
    Count(name, DOT) > 0 /\ Lower(ExtensionOf(name)) \in ALLOWED_EXTENSIONS

(***************************************************************************)
(* State.                                                                  *)
(***************************************************************************)
VARIABLES
    surface,             \* "web": POST /analyze; "cli": analyze_csv.py main
    pc,                  \* where the handler / main stands
    has_file,            \* web: "file" in request.files
    filename,            \* web: file.filename
    content_length,      \* web: the Content-Length of the request
    low_memory_rejected, \* cli: this pandas refuses low_memory with engine="python"
    data_bytes,          \* the bytes of the upload / of the file at csv_path
    text,                \* the decoded text
    encoding_used,
    detected_delimiter,
    df,                  \* the parsed frame
    stats,               \* what compute_stats returned / main computed
    context,             \* web: the template context built for results.html
    flashes,             \* web: the flashed messages, in order
    response,            \* web: page and status; cli: what was printed, exit code
    calls,               \* the core steps entered so far
    uncaught             \* the exception that left main uncaught, or "none"

vars == <<surface, pc, has_file, filename, content_length, low_memory_rejected,
          data_bytes, text, encoding_used, detected_delimiter, df, stats,
          context, flashes, response, calls, uncaught>>

requestVars == <<surface, has_file, filename, content_length, low_memory_rejected,
                 data_bytes>>

\* nothing rendered: what an error page carries of the analysis
NoContext ==
    [filename |-> <<>>, encoding_used |-> "", detected_delimiter |-> NoChar,
     rows |-> 0, cols |-> 0, dtypes |-> <<>>, missing_per_col |-> <<>>,
     overall_missing |-> 0, overall_missing_pct |-> 0,
     duplicates_count |-> 0, dup_preview |-> <<>>, has_numeric |-> FALSE,
     numeric_count |-> <<>>, preview |-> <<>>]
NoResponse == [page |-> "none", status |-> 0, context |-> NoContext]

Flash(category, message) == [category |-> category, message |-> message]

MsgNoFilePart == "No file part in the request."
MsgNoSelectedFile == "No selected file."
MsgInvalidType == "Invalid file type. Only .csv files are allowed."
MsgEmptyUpload == "Uploaded file is empty."
MsgSuccess == "Analysis completed successfully."
MsgEmptyData == "The CSV appears to be empty or has no columns."
MsgParseError == "Failed to parse CSV"
MsgDecodeError == "Failed to decode the file. Try saving as UTF-8 or Latin-1."
MsgUnexpected == "An unexpected error occurred while analyzing the file."
MsgTooLarge == "File is too large."

\* flash(message, "danger") and return render_template("index.html", ...), status
ErrorPage(message, status) ==
    /\ flashes' = Append(flashes, Flash("danger", message))
    /\ response' = [page |-> "index", status |-> status, context |-> NoContext]
    /\ pc' = "done"

(***************************************************************************)
(* Inputs.                                                                 *)
(***************************************************************************)
\* the bytes of the exhaustively enumerated short files: line feed, blank,
\* comma, a digit, a letter, and the two bytes of U+00E9 in UTF-8 (each of
\* which alone is invalid UTF-8)
RawAlphabet == {LF, SPACE, COMMA, DIGIT1, LETTERX, 195, 169}

\* the bytes of the decoder specification: ASCII, a continuation byte of each
\* range (80-8F, 90-9F, A0-BF), the lead bytes C0 (overlong), C2, E0, ED, F0, F4
DecodeAlphabet == {65, 128, 144, 160, 192, 194, 224, 237, 240, 244}

\* the characters of uploaded file names
NameAlphabet == {DOT, SPACE, 99, 115, 118, 86}

\* the name and content of the upload the other inputs are combined with
SampleName == <<99, DOT, 99, 115, 118>>
SampleBytes == <<LETTERX, COMMA, LETTERX, LF, DIGIT1, COMMA, DIGIT1, LF>>

\* a table written out as CSV text: a header line and the data lines
Serialize(header, rows, sep) ==
    JoinWith([i \in 1..(Len(rows) + 1) |->
                 JoinWith(IF i = 1 THEN header ELSE rows[i - 1], sep)], LF) \o <<LF>>

GridHeader == <<<<LETTERX>>, <<LETTERX>>>>
GridFirstCells == {<<>>, <<DIGIT1>>, <<DIGIT3>>, <<LETTERX>>}
GridSecondCells == {<<>>, <<DIGIT1>>}
\* the rows of two fields
RectRowSet == {<<a, b>> : a \in GridFirstCells, b \in GridSecondCells}
\* and one row too short and one too long
RaggedRowSet == {<<<<DIGIT1>>>>, <<<<DIGIT1>>, <<DIGIT1>>, <<DIGIT1>>>>}
\* the two row patterns of the long tables
LongRowSet == {<<<<DIGIT1>>, <<DIGIT1>>>>, <<<<>>, <<DIGIT1>>>>}
\* the long tables end in at most this many freely chosen rows
LongTail == 2

Repeat(r, n) == [i \in 1..n |-> r]

\* the files of the pipeline: every short byte string, and every table of at
\* most MaxGridRows rows under either separator
PipelineInputs ==
    SeqsUpTo(RawAlphabet, MaxRaw)
        \cup {Serialize(GridHeader, rows, sep) :
                 rows \in SeqsUpTo(RectRowSet \cup RaggedRowSet, MaxGridRows),
                 sep \in {COMMA, SEMI}}

\* the tables of the statistics: every rectangular table of at most
\* MaxStatRows rows, and the long ones: one row repeated, then a free tail
StatTexts ==
    {Serialize(GridHeader, rows, COMMA) : rows \in SeqsUpTo(RectRowSet, MaxStatRows)}
        \cup {Serialize(GridHeader, Repeat(r, n) \o tail, COMMA) :
                 r \in LongRowSet, n \in 0..MaxLongRows,
                 tail \in SeqsUpTo(LongRowSet, LongTail)}

(***************************************************************************)
(* Initial states.                                                         *)
(***************************************************************************)
InitLocals ==
    /\ text = <<>>
    /\ encoding_used = ""
    /\ detected_delimiter = NoChar
    /\ df = NoFrame
    /\ stats = NoStats
    /\ context = NoContext
    /\ flashes = <<>>
    /\ response = NoResponse
    /\ calls = {}
    /\ uncaught = "none"

\* a POST /analyze arrives: every file name with the sample content, and
\* every content under the sample name
InitWeb ==
    /\ surface = "web"
    /\ pc = "request"
    /\ low_memory_rejected = FALSE
    /\ \/ /\ has_file = FALSE
          /\ filename = <<>>
          /\ data_bytes = <<>>
          /\ content_length \in {MAX_CONTENT_LENGTH, MAX_CONTENT_LENGTH + 1}
       \/ /\ has_file = TRUE
          /\ filename \in SeqsUpTo(NameAlphabet, MaxNameLen)
          /\ data_bytes = SampleBytes
          /\ content_length \in {MAX_CONTENT_LENGTH, MAX_CONTENT_LENGTH + 1}
       \/ /\ has_file = TRUE
          /\ filename = SampleName
          /\ data_bytes \in PipelineInputs
          /\ content_length = MAX_CONTENT_LENGTH
    /\ InitLocals

\* analyze_csv.py is started on a file
InitCli ==
    /\ surface = "cli"
    /\ pc = "read_bytes"
    /\ has_file = FALSE
    /\ filename = <<>>
    /\ content_length = 0
    /\ low_memory_rejected \in BOOLEAN
    /\ data_bytes \in PipelineInputs
    /\ InitLocals

Init == InitWeb \/ InitCli

(***************************************************************************)
(* The pipeline steps both surfaces run (parse_csv_bytes lines 79-87,      *)
(* read_csv_with_fallback lines 25-31).                                    *)
(***************************************************************************)
\* an exception out of the core: the web handler's except clauses turn it
\* into an error page, main has no handler and dies with a traceback
Raise(kind) ==
    IF surface = "web"
    THEN /\ ErrorPage(CASE kind = "EmptyDataError" -> MsgEmptyData
                        [] kind = "ParserError" -> MsgParseError
                        [] kind = "UnicodeDecodeError" -> MsgDecodeError
                        [] OTHER -> MsgUnexpected,
                      IF kind \in {"EmptyDataError", "ParserError", "UnicodeDecodeError"}
                      THEN 400 ELSE 500)
         /\ UNCHANGED uncaught
    ELSE /\ uncaught' = kind
         /\ response' = [page |-> "traceback", status |-> 1, context |-> NoContext]
         /\ pc' = "crashed"
         /\ UNCHANGED flashes

DecodeStep ==
    /\ pc = "decode"
    /\ LET d == Decode(data_bytes)
       IN  /\ text' = d.text
           /\ encoding_used' = d.encoding_used
    /\ calls' = calls \cup {"decode"}
    /\ pc' = "sniff"
    /\ UNCHANGED <<requestVars, detected_delimiter, df, stats, context, flashes,
                   response, uncaught>>

SniffStep ==
    /\ pc = "sniff"
    /\ calls' = calls \cup {"sniff"}
    /\ LET d == sniff_delimiter(Sample(text))
       IN  IF d = NoChar
           THEN /\ Raise("Error")
                /\ UNCHANGED detected_delimiter
           ELSE /\ detected_delimiter' = d
                /\ pc' = "read_csv"
                /\ UNCHANGED <<flashes, response, uncaught>>
    /\ UNCHANGED <<requestVars, text, encoding_used, df, stats, context>>

\* pd.read_csv: app.py line 91 with the except clauses of lines 213-226,
\* analyze_csv.py line 32, where low_memory=False is an argument too
ReadCsvStep ==
    /\ pc = "read_csv"
    /\ calls' = calls \cup {"read_csv"}
    /\ IF surface = "cli" /\ low_memory_rejected
       THEN /\ Raise("ValueError")
            /\ UNCHANGED df
       ELSE \E r \in ReadCsvCall(text, detected_delimiter) :
               IF r.kind = "ok"
               THEN /\ df' = r.frame
                    /\ pc' = "stats"
                    /\ UNCHANGED <<flashes, response, uncaught>>
               ELSE /\ Raise(r.kind)
                    /\ UNCHANGED df
    /\ UNCHANGED <<requestVars, text, encoding_used, detected_delimiter, stats, context>>

(***************************************************************************)
(* POST /analyze (app.py lines 166-226) and the handler of                 *)
(* RequestEntityTooLarge (lines 241-245).                                  *)
(***************************************************************************)
\* request.files parses the form: werkzeug raises RequestEntityTooLarge when
\* the request is longer than MAX_CONTENT_LENGTH, outside the try of analyze
handle_large_file ==
    /\ surface = "web" /\ pc = "request"
    /\ content_length > MAX_CONTENT_LENGTH
    /\ ErrorPage(MsgTooLarge, 400)
    /\ UNCHANGED <<requestVars, text, encoding_used, detected_delimiter, df, stats,
                   context, calls, uncaught>>

\* lines 168-180: the file part, its name, its extension
analyze_checks ==
    /\ surface = "web" /\ pc = "request"
    /\ content_length <= MAX_CONTENT_LENGTH
    /\ IF ~has_file THEN ErrorPage(MsgNoFilePart, 400)
       ELSE IF filename = <<>> THEN ErrorPage(MsgNoSelectedFile, 400)
       ELSE IF ~allowed_file(secure_filename(filename)) THEN ErrorPage(MsgInvalidType, 400)
       ELSE /\ pc' = "read"
            /\ UNCHANGED <<flashes, response>>
    /\ UNCHANGED <<requestVars, text, encoding_used, detected_delimiter, df, stats,
                   context, calls, uncaught>>

\* lines 183-188: file.read(), the empty check, the call of parse_csv_bytes
analyze_read ==
    /\ surface = "web" /\ pc = "read"
    /\ IF IsBlankBytes(data_bytes) THEN ErrorPage(MsgEmptyUpload, 400)
       ELSE /\ pc' = "decode"
            /\ UNCHANGED <<flashes, response>>
    /\ UNCHANGED <<requestVars, text, encoding_used, detected_delimiter, df, stats,
                   context, calls, uncaught>>

\* line 189
analyze_stats ==
    /\ surface = "web" /\ pc = "stats"
    /\ stats' = compute_stats(df)
    /\ calls' = calls \cup {"compute_stats"}
    /\ pc' = "context"
    /\ UNCHANGED <<requestVars, text, encoding_used, detected_delimiter, df, context,
                   flashes, response, uncaught>>

\* lines 191-208: the context, with its df_to_html renderings; a rendering
\* that raises is caught by except Exception
analyze_context ==
    /\ surface = "web" /\ pc = "context"
    /\ \E rendered \in BOOLEAN :
          IF rendered
          THEN /\ context' =
                     [filename |-> secure_filename(filename),
                      encoding_used |-> encoding_used,
                      detected_delimiter |-> detected_delimiter,
                      rows |-> stats.rows,
                      cols |-> stats.cols,
                      dtypes |-> stats.dtypes,
                      missing_per_col |-> stats.missing_per_col,
                      overall_missing |-> stats.overall_missing,
                      overall_missing_pct |-> RoundScaled(stats.overall_missing_pct, 100),
                      duplicates_count |-> stats.duplicates_count,
                      dup_preview |-> IF stats.duplicates_count > 0
                                      THEN stats.dup_preview ELSE <<>>,
                      has_numeric |-> stats.has_numeric,
                      numeric_count |-> IF stats.has_numeric
                                        THEN stats.numeric_count ELSE <<>>,
                      preview |-> stats.preview]
               /\ pc' = "render"
               /\ UNCHANGED <<flashes, response>>
          ELSE /\ ErrorPage(MsgUnexpected, 500)
               /\ UNCHANGED context
    /\ UNCHANGED <<requestVars, text, encoding_used, detected_delimiter, df, stats,
                   calls, uncaught>>

\* lines 210-211: the success message is flashed, then results.html is
\* rendered; a rendering that raises is caught by except Exception, which
\* flashes its own message after the one already flashed
analyze_render ==
    /\ surface = "web" /\ pc = "render"
    /\ \E rendered \in BOOLEAN :
          IF rendered
          THEN /\ flashes' = Append(flashes, Flash("success", MsgSuccess))
               /\ response' = [page |-> "results", status |-> 200, context |-> context]
          ELSE /\ flashes' = flashes \o <<Flash("success", MsgSuccess),
                                          Flash("danger", MsgUnexpected)>>
               /\ response' = [page |-> "index", status |-> 500, context |-> NoContext]
    /\ pc' = "done"
    /\ UNCHANGED <<requestVars, text, encoding_used, detected_delimiter, df, stats,
                   context, calls, uncaught>>

(***************************************************************************)
(* main of analyze_csv.py.                                                 *)
(***************************************************************************)
\* line 24: path.read_bytes(); nothing looks at the bytes before decoding
main_read_bytes ==
    /\ surface = "cli" /\ pc = "read_bytes"
    /\ pc' = "decode"
    /\ UNCHANGED <<requestVars, text, encoding_used, detected_delimiter, df, stats,
                   context, flashes, response, calls, uncaught>>

\* lines 53-102: the statistics, computed in place, and the printed report
main_report ==
    /\ surface = "cli" /\ pc = "stats"
    /\ stats' = compute_stats(df)
    /\ calls' = calls \cup {"compute_stats"}
    /\ LET st == compute_stats(df)
       IN  /\ context' =
                 [filename |-> <<>>,
                  encoding_used |-> encoding_used,
                  detected_delimiter |-> detected_delimiter,
                  rows |-> st.rows,
                  cols |-> st.cols,
                  dtypes |-> st.dtypes,
                  missing_per_col |-> st.missing_per_col,
                  overall_missing |-> st.overall_missing,
                  overall_missing_pct |-> RoundScaled(st.overall_missing_pct, 1000),
                  duplicates_count |-> st.duplicates_count,
                  dup_preview |-> IF st.duplicates_count > 0 THEN st.dup_preview ELSE <<>>,
                  has_numeric |-> st.has_numeric,
                  numeric_count |-> IF st.has_numeric THEN st.numeric_count ELSE <<>>,
                  preview |-> st.preview]
           /\ response' = [page |-> "stdout", status |-> 0, context |-> context']
    /\ pc' = "done"
    /\ UNCHANGED <<requestVars, text, encoding_used, detected_delimiter, df, flashes,
                   uncaught>>

Next ==
    \/ handle_large_file
    \/ analyze_checks
    \/ analyze_read
    \/ DecodeStep
    \/ SniffStep
    \/ ReadCsvStep
    \/ analyze_stats
    \/ analyze_context
    \/ analyze_render
    \/ main_read_bytes
    \/ main_report

Spec == Init /\ [][Next]_vars

(***************************************************************************)
(* The decoder alone: both surfaces stand before the decoding of bytes     *)
(* drawn from DecodeAlphabet (the upload handler has rejected the empty    *)
(* upload by then).                                                        *)
(***************************************************************************)
InitDecode ==
    /\ surface \in {"web", "cli"}
    /\ pc = "decode"
    /\ has_file = (surface = "web")
    /\ filename = IF surface = "web" THEN SampleName ELSE <<>>
    /\ content_length = IF surface = "web" THEN MAX_CONTENT_LENGTH ELSE 0
    /\ low_memory_rejected = FALSE
    /\ data_bytes \in SeqsUpTo(DecodeAlphabet, MaxDecodeLen)
    /\ surface = "web" => ~IsBlankBytes(data_bytes)
    /\ InitLocals

NextDecode == DecodeStep

SpecDecode == InitDecode /\ [][NextDecode]_vars

(***************************************************************************)
(* The statistics alone: both surfaces stand after read_csv has returned   *)
(* the frame of one of the tables of StatTexts.                            *)
(***************************************************************************)
InitStats ==
    /\ surface \in {"web", "cli"}
    /\ pc = "stats"
    /\ has_file = (surface = "web")
    /\ filename = IF surface = "web" THEN SampleName ELSE <<>>
    /\ content_length = IF surface = "web" THEN MAX_CONTENT_LENGTH ELSE 0
    /\ low_memory_rejected = FALSE
    /\ data_bytes \in StatTexts
    /\ text = Decode(data_bytes).text
    /\ encoding_used = Decode(data_bytes).encoding_used
    /\ detected_delimiter = sniff_delimiter(Sample(text))
    /\ \E r \in ReadCsvCall(text, detected_delimiter) :
          /\ r.kind = "ok"
          /\ df = r.frame
    /\ stats = NoStats
    /\ context = NoContext
    /\ flashes = <<>>
    /\ response = NoResponse
    /\ calls = {"decode", "sniff", "read_csv"}
    /\ uncaught = "none"

NextStats == analyze_stats \/ main_report

SpecStats == InitStats /\ [][NextStats]_vars

(***************************************************************************)
(* Notions the statements below are written in.                            *)
(***************************************************************************)
Range(s) == {s[i] : i \in 1..Len(s)}

\* the steps of the core: decoder, sniffer, table parser, profiler
CoreSteps == {"decode", "sniff", "read_csv", "compute_stats"}

\* the name ends in ".csv", in any case
EndsWithCsvExtension(name) ==
    /\ Len(name) >= 4
    /\ Lower(SubSeq(name, Len(name) - 3, Len(name))) = <<DOT, 99, 115, 118>>

\* the request passes every check of the upload surface
GuardsPass ==
    /\ has_file
    /\ filename # <<>>
    /\ EndsWithCsvExtension(secure_filename(filename))
    /\ content_length <= MAX_CONTENT_LENGTH

\* bytes have been handed to the core
CoreEntered ==
    calls # {} \/ pc \in {"decode", "sniff", "read_csv", "stats", "context", "render"}

\* the well-formed UTF-8 byte sequences of the Unicode standard (table 3-7)
WellFormedSequence(bs) ==
    LET n == Len(bs)
        In(k, lo, hi) == bs[k] >= lo /\ bs[k] <= hi
    IN  \/ n = 1 /\ In(1, 0, 127)
        \/ n = 2 /\ In(1, 194, 223) /\ In(2, 128, 191)
        \/ n = 3 /\ In(1, 224, 224) /\ In(2, 160, 191) /\ In(3, 128, 191)
        \/ n = 3 /\ In(1, 225, 236) /\ In(2, 128, 191) /\ In(3, 128, 191)
        \/ n = 3 /\ In(1, 237, 237) /\ In(2, 128, 159) /\ In(3, 128, 191)
        \/ n = 3 /\ In(1, 238, 239) /\ In(2, 128, 191) /\ In(3, 128, 191)
        \/ n = 4 /\ In(1, 240, 240) /\ In(2, 144, 191) /\ In(3, 128, 191) /\ In(4, 128, 191)
        \/ n = 4 /\ In(1, 241, 243) /\ In(2, 128, 191) /\ In(3, 128, 191) /\ In(4, 128, 191)
        \/ n = 4 /\ In(1, 244, 244) /\ In(2, 128, 143) /\ In(3, 128, 191) /\ In(4, 128, 191)

RECURSIVE WellFormedUtf8(_)
WellFormedUtf8(b) ==
    \/ b = <<>>
    \/ \E n \in 1..Min(4, Len(b)) :
          /\ WellFormedSequence(SubSeq(b, 1, n))
          /\ WellFormedUtf8(SubSeq(b, n + 1, Len(b)))

\* the UTF-8 encoding of one code point, and of a text
Utf8EncodeChar(cp) ==
    IF cp < 128 THEN <<cp>>
    ELSE IF cp < 2048 THEN <<192 + (cp \div 64), 128 + (cp % 64)>>
    ELSE IF cp < 65536
    THEN <<224 + (cp \div 4096), 128 + ((cp \div 64) % 64), 128 + (cp % 64)>>
    ELSE <<240 + (cp \div 262144), 128 + ((cp \div 4096) % 64),
           128 + ((cp \div 64) % 64), 128 + (cp % 64)>>

RECURSIVE Utf8Encode(_)
Utf8Encode(t) == IF t = <<>> THEN <<>> ELSE Utf8EncodeChar(Head(t)) \o Utf8Encode(Tail(t))

\* the header and the data rows the parser splits the text into
HeaderFields(t) ==
    LET lines == FileLines(t)
    IN  IF lines = <<>> THEN <<>> ELSE ReaderRow(lines[1], ParserSeparator(t))

DataRows(t) ==
    LET lines == FileLines(t)
    IN  SelectSeq([i \in 1..(Len(lines) - 1) |-> ReaderRow(lines[i + 1], ParserSeparator(t))],
                  IsDataRow)

\* a first line the parser can split into columns, and no data row after it
HeaderOnly(t) == ParserSeparator(t) # NoChar /\ DataRows(t) = <<>>

\* every data row has as many fields as the header
Rectangular(t) == \A i \in 1..Len(DataRows(t)) : Len(DataRows(t)[i]) = Len(HeaderFields(t))

\* the rows that repeat an earlier row
RepeatedRows(frame) ==
    {i \in 1..Len(frame.rows) : \E j \in 1..(i - 1) : frame.rows[j] = frame.rows[i]}

\* the k-th element of a set of numbers, in ascending order
Kth(S, k) == CHOOSE i \in S : Cardinality({j \in S : j < i}) = k - 1

(***************************************************************************)
(* C1.  analyze is all-or-nothing: a finished request either carries the   *)
(* results page with status 200, the success notice and the report of a    *)
(* run in which every step completed, or an error page with status 400 or  *)
(* 500 that carries no statistics and no success notice.                   *)
(***************************************************************************)
C1_AllOrNothing ==
    (surface = "web" /\ pc = "done") =>
        IF response.page = "results"
        THEN /\ response.status = 200
             /\ Flash("success", MsgSuccess) \in Range(flashes)
             /\ CoreSteps \subseteq calls
             /\ response.context = context
             /\ context # NoContext
        ELSE /\ response.page = "index"
             /\ response.status \in {400, 500}
             /\ response.context = NoContext
             /\ \A i \in 1..Len(flashes) : flashes[i].category # "success"

(***************************************************************************)
(* C2.  On both surfaces no core error (EmptyInput, DecodeFailure,         *)
(* EmptyDataError, ParseError) leaves the caller uncaught: each is turned  *)
(* into a user-facing message and the process goes on.                     *)
(***************************************************************************)
CoreErrors == {"EmptyInput", "UnicodeDecodeError", "EmptyDataError", "ParserError"}

C2_CoreErrorsCaught ==
    /\ uncaught \notin CoreErrors
    /\ (surface = "web" /\ pc = "done" /\ response.page = "index")
          => \E i \in 1..Len(flashes) : flashes[i].category = "danger"

(***************************************************************************)
(* C3.  The upload surface never hands bytes to the core for a request     *)
(* without file part, with an empty file name, with a sanitized name that  *)
(* does not end in .csv, or longer than the maximum size; each such        *)
(* request ends with status 400 and one error message, and the oversize    *)
(* one with the message of the TooLarge handler.                           *)
(***************************************************************************)
C3_UploadGuards ==
    surface = "web" =>
        /\ CoreEntered => GuardsPass
        /\ (pc = "done" /\ ~GuardsPass) =>
              /\ response = [page |-> "index", status |-> 400, context |-> NoContext]
              /\ calls = {}
              /\ Len(flashes) = 1
              /\ flashes[1].category = "danger"
        /\ (pc = "done" /\ content_length > MAX_CONTENT_LENGTH) =>
              flashes = <<Flash("danger", MsgTooLarge)>>

\* an oversize request that would otherwise have been analysed was rejected
C3_Witness ==
    /\ surface = "web" /\ pc = "done"
    /\ content_length > MAX_CONTENT_LENGTH
    /\ has_file /\ allowed_file(secure_filename(filename))
    /\ response.status = 400
    /\ flashes = <<Flash("danger", MsgTooLarge)>>

(***************************************************************************)
(* C4.  For a zero-byte or whitespace-only input no decoder, sniffer or    *)
(* parser is ever called, and the web handler reports the empty input.     *)
(***************************************************************************)
C4_EmptyInputBeforeParsing ==
    IsBlankBytes(data_bytes) =>
        /\ calls \cap {"decode", "sniff", "read_csv"} = {}
        /\ (surface = "web" /\ pc = "done" /\ GuardsPass)
              => flashes = <<Flash("danger", MsgEmptyUpload)>>

(***************************************************************************)
(* C5.  Decoding is total and falls back exactly when needed: after the    *)
(* decoding step encoding_used is "utf-8" if and only if the bytes are     *)
(* well-formed UTF-8, and then the text encodes back to the bytes;         *)
(* otherwise it is "latin-1" and the text has one character per byte, of   *)
(* the byte's value.  No error is raised or reported.                      *)
(***************************************************************************)
C5_DecodeTotal ==
    "decode" \in calls =>
        /\ encoding_used \in {"utf-8", "latin-1"}
        /\ encoding_used = "utf-8" <=> WellFormedUtf8(data_bytes)
        /\ encoding_used = "utf-8" => Utf8Encode(text) = data_bytes
        /\ encoding_used = "latin-1" =>
              /\ Len(text) = Len(data_bytes)
              /\ \A i \in 1..Len(text) : text[i] = data_bytes[i]
        /\ uncaught # "UnicodeDecodeError"
        /\ Flash("danger", MsgDecodeError) \notin Range(flashes)
        /\ pc # "decode"

\* the fallback was taken on bytes that begin like a multi-byte character
C5_Witness ==
    /\ "decode" \in calls
    /\ encoding_used = "latin-1"
    /\ Len(data_bytes) >= 2
    /\ data_bytes[1] = 224 /\ IsContinuation(data_bytes[2])

(***************************************************************************)
(* C6, as claimed.  An upload with a header row and no data rows, or with  *)
(* no columns at all, ends in the EmptyDataError message and never in a    *)
(* report.                                                                 *)
(***************************************************************************)
C6_EmptyTableIsEmptyDataError ==
    (/\ surface = "web" /\ pc = "done" /\ GuardsPass
     /\ IsBlankBytes(data_bytes) \/ HeaderOnly(Decode(data_bytes).text))
        => /\ response.page = "index"
           /\ flashes = <<Flash("danger", MsgEmptyData)>>

(***************************************************************************)
(* C6, amended.  An upload whose first line the parser can split into      *)
(* columns and which has no data rows is no EmptyDataError: the parser     *)
(* returns a table of zero rows, and the report, when it is rendered, has  *)
(* rows = 0 and overall_missing_pct = 0.  A zero-byte or whitespace-only   *)
(* upload never yields a report: it ends in an error page of status 400.   *)
(***************************************************************************)
C6_HeaderOnlyGivesEmptyReport ==
    (surface = "web" /\ GuardsPass) =>
        /\ (IsBlankBytes(data_bytes) /\ pc = "done") =>
              response = [page |-> "index", status |-> 400, context |-> NoContext]
        /\ (/\ ~IsBlankBytes(data_bytes)
            /\ HeaderOnly(Decode(data_bytes).text)
            /\ "read_csv" \in calls) =>
              /\ df # NoFrame
              /\ Rows(df) = 0
              /\ Cols(df) = Len(HeaderFields(text))
              /\ Cols(df) >= 1
              /\ Flash("danger", MsgEmptyData) \notin Range(flashes)
              /\ (pc = "done" /\ response.page = "results") =>
                    /\ response.status = 200
                    /\ response.context.rows = 0
                    /\ response.context.cols = Cols(df)
                    /\ response.context.overall_missing_pct = 0

\* the report of a header-only upload was returned
C6_Witness ==
    /\ surface = "web" /\ pc = "done"
    /\ HeaderOnly(text)
    /\ response.page = "results"
    /\ response.context.rows = 0
    /\ response.context.cols = 2

(***************************************************************************)
(* C7.  duplicates_count is the number of rows that equal an earlier row   *)
(* (a first occurrence is not counted, every repeat is), and the duplicate *)
(* preview is the first min(10, duplicates_count) of those rows in their   *)
(* order in the table.                                                     *)
(***************************************************************************)
C7_DuplicatesCounted ==
    "compute_stats" \in calls =>
        LET rep == RepeatedRows(df)
        IN  /\ stats.duplicates_count = Cardinality(rep)
            /\ Len(stats.dup_preview) = Min(10, Cardinality(rep))
            /\ \A k \in 1..Len(stats.dup_preview) :
                  stats.dup_preview[k] = df.rows[Kth(rep, k)]

\* more than ten repeats, of which the preview shows ten, and a row that is
\* no repeat
C7_Witness ==
    /\ "compute_stats" \in calls
    /\ stats.duplicates_count > 10
    /\ Len(stats.dup_preview) = 10
    /\ stats.duplicates_count < stats.rows - 1

(***************************************************************************)
(* C8.  overall_missing is the number of missing cells, the sum of the     *)
(* per-column counts, at most rows*cols; overall_missing_pct lies in       *)
(* [0, 100], is overall_missing / (rows*cols) * 100 when rows*cols > 0     *)
(* and 0 when rows*cols = 0.                                               *)
(***************************************************************************)
C8_MissingPercentage ==
    "compute_stats" \in calls =>
        LET total == Rows(df) * Cols(df)
            missing == Cardinality({ij \in (1..Rows(df)) \X (1..Cols(df)) :
                                       df.rows[ij[1]][ij[2]].kind = "nan"})
            p == stats.overall_missing_pct
        IN  /\ stats.rows = Rows(df) /\ stats.cols = Cols(df)
            /\ stats.overall_missing = missing
            /\ stats.overall_missing = SumSeq(stats.missing_per_col)
            /\ stats.overall_missing <= total
            /\ p[2] > 0
            /\ 0 <= p[1] /\ p[1] <= 100 * p[2]
            /\ total > 0 => p[1] * total = stats.overall_missing * 100 * p[2]
            /\ total = 0 => p[1] = 0

\* the statistics of a table without rows
C8_Witness ==
    /\ "compute_stats" \in calls
    /\ stats.rows = 0 /\ stats.cols = 2
    /\ stats.overall_missing_pct[1] = 0

(***************************************************************************)
(* C9, as claimed.  A column whose non-missing cells are all integers and  *)
(* which has a missing cell is reported as an integer column, with the     *)
(* number of its empty cells as its missing count.                         *)
(***************************************************************************)
\* the columns of data rows of n fields each whose fields are integers or
\* empty, one at least empty
IntegerColumnsWithMissing(rows, n) ==
    {j \in 1..n :
        /\ \A i \in 1..Len(rows) : rows[i][j] = <<>> \/ IsIntToken(rows[i][j])
        /\ \E i \in 1..Len(rows) : rows[i][j] = <<>>}

EmptyCells(rows, j) == Cardinality({i \in 1..Len(rows) : rows[i][j] = <<>>})

C10_SniffIsDisplayOnly ==
    /\ "sniff" \in calls =>
          /\ detected_delimiter \in CandidateDelimiters
          /\ "read_csv" \notin calls =>
                pc = "read_csv" /\ response = NoResponse /\ uncaught = "none"
    /\ ("read_csv" \in calls /\ ~(surface = "cli" /\ low_memory_rejected)) =>
          \E r \in PdReadCsv(text, NoChar) :
              IF r.kind = "ok"
              THEN df = r.frame /\ uncaught = "none"
                     /\ \A i \in 1..Len(flashes) :
                           flashes[i].message \notin {MsgEmptyData, MsgParseError}
              ELSE /\ df = NoFrame
                   /\ surface = "cli" => uncaught = r.kind
                   /\ surface = "web" => pc = "done" /\ response.page = "index"
    /\ (pc = "done" /\ response.page \in {"results", "stdout"}) =>
          response.context.detected_delimiter = detected_delimiter

\* a report was returned although the sniffed delimiter is not the separator
\* the parser used
C10_Witness ==
    /\ pc = "done"
    /\ response.page = "results"
    /\ response.status = 200
    /\ detected_delimiter # ParserSeparator(text)

=============================================================================
